---------------------------- MODULE Spec2Model ----------------------------
(***************************************************************************)
(* Session store (AuthService), token-refresh coordinator                  *)
(* (AuthInterceptor) and route guard (AuthGuard) of the Videoflix client.  *)
(*                                                                         *)
(* Execution is single threaded: every action below is one run-to-         *)
(* completion turn of the event loop, i.e. one subscribe call or the       *)
(* delivery of one HTTP response together with every synchronous RxJS      *)
(* callback it triggers.  The server is the environment: it answers each   *)
(* outstanding request, in any order, with 200 or with an error status.    *)
(* AuthInterceptor is taken to be in the HttpClient chain of every         *)
(* request, as its class comment says.                                     *)
(*                                                                         *)
(* The second part is the routed components that play video                *)
(* (MainpageComponent and the two VideoPlayerComponent variants) and the   *)
(* third is VideoService.getHlsUrl.  Each part has its own specification,  *)
(* which holds the variables of the other parts fixed.                     *)
(***************************************************************************)
EXTENDS Naturals, Sequences, FiniteSets

VARIABLES
    hint,               \* localStorage 'wasLoggedIn' === 'true'
    loggedIn,           \* loggedInSubject.value
    emitted,            \* values pushed to isLoggedIn$ by the latest turn, in order
    authCheckComplete,  \* AuthService.authCheckComplete (private flag)
    acSubject,          \* authCheckCompleteSubject.value
    acEmitted,          \* values pushed to authCheckComplete$ by the latest turn
    startup,            \* the constructor's refresh: "none", "pending", "ok", "failed"
    isRefreshing,       \* AuthInterceptor.isRefreshing
    calls,              \* the subscribed HTTP calls in flight, one per slot
    last,               \* the call whose pipeline ended in the latest turn
    guard,              \* the canActivate invocation of the latest turn
    refreshObs,         \* the refreshToken() pipeline that ended in the latest turn
    check,              \* the checkAuthStatus() subscription of the latest turn
    fresh,              \* TRUE until the first turn after the constructor
    pushOrder,          \* the subjects the latest turn pushed to, in order
    comp,               \* the routed component: its fields, element and subscriptions
    browser,            \* Hls.isSupported(), canPlayType and the media query
    turn,               \* what the latest turn of the component did
    args,               \* the arguments of the getHlsUrl call
    title,              \* VideoService.title
    hlsUrl,             \* what the latest getHlsUrl call returned
    hlsUrlBefore,       \* what the getHlsUrl call before it returned
    cookie,             \* the csrftoken cookie
    sent,               \* the latest request that left XsrfInterceptor
    videos,             \* the catalog given to groupVideosByGenre
    selected,           \* the place in it of the video given as selected
    sections            \* what groupVideosByGenre returned

authVars == <<hint, loggedIn, emitted, authCheckComplete, acSubject, acEmitted,
              startup, isRefreshing, calls, last, guard, refreshObs, check,
              fresh, pushOrder>>

playerVars == <<comp, browser, turn>>

urlVars == <<args, title, hlsUrl, hlsUrlBefore>>

xsrfVars == <<cookie, sent>>

groupVars == <<videos, selected, sections>>

vars == <<authVars, playerVars, urlVars, xsrfVars, groupVars>>

\* Bound of the model: how many calls are in flight at once.  The number of
\* calls made over time is not bounded.
MaxInFlight == 2

Slots == 1..MaxInFlight

\* HTTP statuses.
Ok == 200
Unauthorized == 401
ErrStatus == {401, 500}
Outcomes == {Ok} \cup ErrStatus

\* The calls components make: a catalog request, login() and logout().
Kinds == {"video", "login", "logout"}

\* The path of each request below baseUrl, as its segments.
UrlOf(kind) ==
    CASE kind = "login"   -> <<"login">>
      [] kind = "logout"  -> <<"logout">>
      [] kind = "refresh" -> <<"token", "refresh">>
      [] OTHER            -> <<"video">>

\* req.url.endsWith('/refresh/'): every URL ends with '/', so the test is on
\* the last path segment.
EndsWithRefresh(url) == Len(url) > 0 /\ url[Len(url)] = "refresh"

\* The condition under which AuthInterceptor starts a refresh for a failure.
ShouldRefresh(url, status, refreshing) ==
    /\ status = Unauthorized
    /\ ~EndsWithRefresh(url)
    /\ ~refreshing

\* refreshToken(): what it pushes to loggedInSubject for a response status.
RefreshTokenEmits(status) == IF status = Ok THEN <<TRUE>> ELSE <<FALSE>>

\* A refreshToken() without catchError: a failure reaches the subscriber.
RefreshTokenRethrows(status) == IF status = Ok THEN "value" ELSE "error"

\* refreshToken(): what its subscriber receives; catchError returns of(null).
RefreshTokenDelivers(status) == "value"

\* refreshToken(): the value its subscriber receives: the response, or the
\* null of of(null).
RefreshTokenValue(status) == IF status = Ok THEN "response" ELSE "null"

\* What the refreshToken() pipeline did with a response of status s.
RefreshObserved(by, s) ==
    [by |-> by, status |-> s, pushed |-> RefreshTokenEmits(s),
     delivered |-> RefreshTokenDelivers(s), value |-> RefreshTokenValue(s)]

\* No refreshToken() pipeline ended.
NoRefresh ==
    [by |-> "none", status |-> 0, pushed |-> <<>>, delivered |-> "none",
     value |-> "none"]

\* Handlers that complete the check before they set the login state.
ValidateOrderCompleteFirst(delivered) == <<"authCheckComplete", "loggedIn">>

\* validateExistingToken(): both handlers push to loggedInSubject first and
\* to authCheckCompleteSubject after it.
ValidateOrder(delivered) == <<"loggedIn", "authCheckComplete">>

\* validateExistingToken(): the subscriber's next and error handlers.
ValidateEmits(delivered) == IF delivered = "value" THEN <<TRUE>> ELSE <<FALSE>>

\* The operators a service method puts on its request, given the hint h as
\* it is: the hint they leave, what they push to loggedInSubject and what the
\* subscriber receives.
\* A login() whose tap pushes true and forgets to persist the hint.
LoginTapKeepsHint(h) == [hint |-> h, emits |-> <<TRUE>>, sub |-> "value"]

\* login(): tap on a successful response.
LoginTap(h) == [hint |-> TRUE, emits |-> <<TRUE>>, sub |-> "value"]

\* logout(): tap on a successful response.
LogoutTap(h) == [hint |-> FALSE, emits |-> <<FALSE>>, sub |-> "value"]

\* A logout() without catchError: the failure reaches the subscriber and
\* nothing is cleared.
LogoutRethrows(h) == [hint |-> h, emits |-> <<>>, sub |-> "error"]

\* logout(): catchError, which returns of(null).
LogoutCatchError(h) == [hint |-> FALSE, emits |-> <<FALSE>>, sub |-> "value"]

\* What the service method that issued the request does with a response that
\* leaves the interceptor chain as a value.
ServiceOnValue(kind, h) ==
    CASE kind = "login"  -> LoginTap(h)
      [] kind = "logout" -> LogoutTap(h)
      [] OTHER           -> [hint |-> h, emits |-> <<>>, sub |-> "value"]

\* ... and with one that leaves it as an error.
ServiceOnError(kind, h) ==
    CASE kind = "logout" -> LogoutCatchError(h)
      [] OTHER           -> [hint |-> h, emits |-> <<>>, sub |-> "error"]

\* BehaviorSubject.next for each value of seq: the value after the last one.
ValueAfter(seq, cur) == IF seq = <<>> THEN cur ELSE seq[Len(seq)]

\* initializeAuth: bootstrap, and with it every component, waits for
\* authCheckComplete$ to emit true.
AppInitialized == acSubject

\* A free slot.  A call records what happened to it: how often its request
\* was sent, how many refreshes were started for it, the status of its first
\* failure and of the failure of its resend (0: none), how its refresh ended,
\* what left the interceptor (out, outStatus), what the subscriber received
\* (sub), the values its pipeline pushed to isLoggedIn$ and whether it
\* changed the login state or the hint.
NoCall ==
    [kind |-> "none", st |-> "idle", sends |-> 0, refreshes |-> 0,
     err1 |-> 0, refreshed |-> "none", err2 |-> 0,
     out |-> "none", outStatus |-> 0, sub |-> "none",
     emits |-> <<>>, touched |-> FALSE]

\* No canActivate invocation.
NoGuard == [acSeen |-> FALSE, decision |-> "none", n |-> 0, live |-> FALSE]

\* No checkAuthStatus() subscription.
NoCheck == [called |-> FALSE, acSeen |-> FALSE, values |-> <<>>]

\* take(1): the first value of a stream, after which it completes.
Take1(s) == IF s = <<>> THEN <<>> ELSE <<s[1]>>

\* A turn that pushes the values es to loggedInSubject only.
LoggedInOnly(es) == [i \in 1..Len(es) |-> "loggedIn"]

(***************************************************************************)
(* Strings, as sequences of characters, and the string functions the       *)
(* components and VideoService use.                                        *)
(***************************************************************************)

\* Bound of the model: the longest slug or identifier string.
MaxLen == 3

\* The characters of the model: a letter, a blank, a hyphen and a character
\* that the slug pattern rejects.
Chars == {"a", " ", "-", "!"}

Strings == UNION {[1..n -> Chars] : n \in 0..MaxLen}

\* The class \s of the regular expressions, within Chars.
Whitespace == {" "}

\* The class [\s-] of getHlsUrl.
WhitespaceOrHyphen == Whitespace \cup {"-"}

\* The class [a-zA-Z0-9_-] of isValidSlug, within Chars and the digits.
SlugClass ==
    {"a", "_", "-", "0", "1", "2", "3", "4", "5", "6", "7", "8", "9"}

RECURSIVE TrimStart(_)
\* String.prototype.trim, the leading half.
TrimStart(s) ==
    IF s # <<>> /\ s[1] \in Whitespace THEN TrimStart(Tail(s)) ELSE s

RECURSIVE TrimEnd(_)
\* String.prototype.trim, the trailing half.
TrimEnd(s) ==
    IF s # <<>> /\ s[Len(s)] \in Whitespace
    THEN TrimEnd(SubSeq(s, 1, Len(s) - 1))
    ELSE s

\* String.prototype.trim.
Trim(s) == TrimEnd(TrimStart(s))

RECURSIVE SkipRun(_, _)
\* The rest of s after the longest prefix of characters of class.
SkipRun(s, class) ==
    IF s # <<>> /\ s[1] \in class THEN SkipRun(Tail(s), class) ELSE s

RECURSIVE ReplaceEach(_, _)
\* A replace whose pattern lacks the +: one underscore per character.
ReplaceEach(s, class) ==
    IF s = <<>> THEN <<>>
    ELSE (IF s[1] \in class THEN <<"_">> ELSE <<s[1]>>)
             \o ReplaceEach(Tail(s), class)

RECURSIVE ReplaceRuns(_, _)
\* replace(/[class]+/g, '_'): scanning from the left, each match is the
\* longest run of characters of class and becomes one underscore.
ReplaceRuns(s, class) ==
    IF s = <<>> THEN <<>>
    ELSE IF s[1] \in class
         THEN <<"_">> \o ReplaceRuns(SkipRun(Tail(s), class), class)
         ELSE <<s[1]>> \o ReplaceRuns(Tail(s), class)

\* The decimal digit d as a character.
Digit(d) == <<"0", "1", "2", "3", "4", "5", "6", "7", "8", "9">>[d + 1]

RECURSIVE ToString(_)
\* Number.prototype.toString of a natural number.
ToString(n) ==
    IF n < 10 THEN <<Digit(n)>> ELSE ToString(n \div 10) \o <<Digit(n % 10)>>

\* normalizeSlug of the slug-driven player.
NormalizeSlug(slug) == ReplaceRuns(Trim(slug), Whitespace)

\* isValidSlug of the slug-driven player: the pattern needs one character at
\* least.
IsValidSlug(slug) ==
    /\ Len(slug) > 0
    /\ \A i \in 1..Len(slug) : slug[i] \in SlugClass

\* The host of the media files.
MediaHost == "http://127.0.0.1:8000"

Resolutions == {"480p", "720p", "1080p"}

\* The numeric identifiers of the model.
Ids == {0, 7, 42}

\* A first argument of getHlsUrl: a number or a string.
Number(n) == [type |-> "number", n |-> n, s |-> <<>>]
String(s) == [type |-> "string", n |-> 0, s |-> s]

IdsOrSlugs == {Number(n) : n \in Ids} \cup {String(s) : s \in Strings}

\* A path segment made without trim().
PathSegmentUntrimmed(videoIdOrSlug) ==
    IF videoIdOrSlug.type = "number"
    THEN ToString(videoIdOrSlug.n)
    ELSE ReplaceRuns(videoIdOrSlug.s, WhitespaceOrHyphen)

\* getHlsUrl: the path segment for the first argument.
PathSegment(videoIdOrSlug) ==
    IF videoIdOrSlug.type = "number"
    THEN ToString(videoIdOrSlug.n)
    ELSE ReplaceRuns(Trim(videoIdOrSlug.s), WhitespaceOrHyphen)

\* getHlsUrl: the URL, as the parts of its template.
getHlsUrl(videoIdOrSlug, resolution) ==
    [host |-> MediaHost, path |-> <<"media", "videos", "hls">>,
     resolution |-> resolution, segment |-> PathSegment(videoIdOrSlug),
     file |-> "index.m3u8"]

\* The values VideoService.title takes.
Titles == {"", "t"}

\* No getHlsUrl call is under observation.
NoUrlCall ==
    /\ args = [idOrSlug |-> Number(0), resolution |-> "480p"]
    /\ title = ""
    /\ hlsUrl = <<>>
    /\ hlsUrlBefore = <<>>

(***************************************************************************)
(* The routed components: values.                                          *)
(***************************************************************************)

\* Bound of the model: how many catalog requests of a component are
\* unanswered at once.
MaxPending == 2

\* params['slug'] when the query has no slug.
Absent == [type |-> "undefined", n |-> 0, s |-> <<>>]

\* The characters of the slugs of the model: a letter, a blank and a
\* character that the slug pattern rejects.
SlugChars == {"a", " ", "!"}

\* The values of params['slug'].
SlugParams ==
    {Absent} \cup {String(s) : s \in UNION {[1..n -> SlugChars] : n \in 0..MaxLen}}

\* The slugs of the videos the catalog holds.
Catalog == {<<"a">>, <<"a", "_", "a">>}

\* No component has been created.  hls is whether this.hls holds an engine,
\* el what the media element plays from ("mse" once an engine is attached,
\* "native" once the component assigned src), videoUrl whether this.videoUrl
\* is non-empty, pending the normalized slugs of the unanswered catalog
\* requests (empty for getVideos of the main page), bp whether the
\* breakpoint subscription exists and engines how many engines the
\* component created and has not destroyed.
NoComp ==
    [kind |-> "none", life |-> "none", hls |-> FALSE, el |-> "none",
     videoUrl |-> FALSE, pending |-> <<>>, bp |-> FALSE, engines |-> 0]

\* A turn that did nothing.
NoTurn ==
    [event |-> "none", late |-> FALSE, created |-> FALSE, replaced |-> FALSE,
     assigned |-> FALSE, nav |-> "none", requested |-> FALSE, slug |-> Absent, resp |-> "none",
     found |-> FALSE]

\* The browsers: Hls.isSupported(), canPlayType of the HLS MIME type and
\* whether '(min-width: 960px)' matches.
Browsers == [hls : BOOLEAN, native : BOOLEAN, wide : BOOLEAN]

\* No component exists.
NoComponent ==
    /\ comp = NoComp
    /\ browser = [hls |-> TRUE, native |-> FALSE, wide |-> TRUE]
    /\ turn = NoTurn

(***************************************************************************)
(* XsrfInterceptor and groupVideosByGenre: values.                         *)
(***************************************************************************)

\* The values of the csrftoken cookie as getToken() returns them: null
\* without the cookie ("none"), the empty string or a token.
CookieValues == {"none", "", "t1", "t2"}

\* The request methods; all but GET change state on the server.
Methods == {"GET", "POST", "PUT", "DELETE"}

\* The requests a caller hands to HttpClient: header is the value of
\* 'X-CSRFToken', "none" when the caller did not set it.
Requests ==
    [method : Methods, header : {"none", "own"}, withCredentials : BOOLEAN]

\* No request has passed XsrfInterceptor.
NoRequest ==
    [req |-> [method |-> "none", header |-> "none", withCredentials |-> FALSE],
     out |-> [method |-> "none", header |-> "none", withCredentials |-> FALSE],
     token |-> "none"]

\* No request is under observation.
NoRequestSent ==
    /\ cookie = "none"
    /\ sent = NoRequest

\* Bound of the model: the longest catalog.
MaxVideos == 3

\* The values of Video.genre, "" for a video without one.
Genres == {"", "X", "Y"}

\* The thumbnail of the video at place i, and that of a video without one.
Thumbnail(i) == <<"img", i>>
NoThumbnail == <<>>

\* The catalogs: the video at place i has the id i, a genre or none and
\* its own thumbnail or none.
Catalogs ==
    UNION {{[i \in 1..n |->
                [id |-> i, genre |-> g[i],
                 thumbnail |-> IF h[i] THEN Thumbnail(i) ELSE NoThumbnail]]
            : g \in [1..n -> Genres], h \in [1..n -> BOOLEAN]}
           : n \in 1..MaxVideos}

\* No grouping is under observation.
NoGrouping ==
    /\ videos = <<>>
    /\ selected = 0
    /\ sections = <<>>

\* A constructor that calls validateExistingToken() whatever the hint is.
InitAlwaysValidates ==
    /\ hint \in BOOLEAN
    /\ loggedIn = FALSE
    /\ emitted = <<>>
    /\ authCheckComplete = FALSE
    /\ acSubject = FALSE
    /\ acEmitted = <<>>
    /\ startup = "pending"
    /\ isRefreshing = FALSE
    /\ calls = [c \in Slots |-> NoCall]
    /\ last = NoCall
    /\ guard = NoGuard
    /\ refreshObs = NoRefresh
    /\ check = NoCheck
    /\ fresh = TRUE
    /\ pushOrder = <<>>
    /\ NoComponent
    /\ NoUrlCall
    /\ NoRequestSent
    /\ NoGrouping

\* The state after the AuthService constructor has run.
Init ==
    /\ hint \in BOOLEAN
    /\ loggedIn = FALSE
    /\ emitted = <<>>
    /\ authCheckComplete = ~hint
    /\ acSubject = ~hint
    /\ acEmitted = IF hint THEN <<>> ELSE <<TRUE>>
    /\ startup = IF hint THEN "pending" ELSE "none"
    /\ isRefreshing = FALSE
    /\ calls = [c \in Slots |-> NoCall]
    /\ last = NoCall
    /\ guard = NoGuard
    /\ refreshObs = NoRefresh
    /\ check = NoCheck
    /\ fresh = TRUE
    /\ pushOrder = IF hint THEN <<>> ELSE <<"authCheckComplete">>
    /\ NoComponent
    /\ NoUrlCall
    /\ NoRequestSent
    /\ NoGrouping

\* Requests to the refresh endpoint that were sent and not answered yet.
RefreshOutstanding ==
    (IF startup = "pending" THEN 1 ELSE 0)
        + Cardinality({c \in Slots : calls[c].st = "refreshing"})

\* A turn other than the constructor's in which no refreshToken() pipeline
\* ends, checkAuthStatus() is not subscribed and authCheckCompleteSubject is
\* left alone.
Quiet ==
    /\ refreshObs' = NoRefresh
    /\ check' = NoCheck
    /\ fresh' = FALSE
    /\ pushOrder' = LoggedInOnly(emitted')

\* The turn pushes the values es to loggedInSubject, in order.
Push(es) ==
    /\ emitted' = es
    /\ loggedIn' = ValueAfter(es, loggedIn)

\* A validateExistingToken() whose error handler is missing: a refresh that
\* does not deliver a value leaves the check incomplete for good.
StartupRefreshDoneNoErrorHandler(s) ==
    /\ startup = "pending"
    /\ Push(RefreshTokenEmits(s)
                \o (IF s = Ok THEN ValidateEmits("value") ELSE <<>>))
    /\ authCheckComplete' = (s = Ok)
    /\ acSubject' = (s = Ok)
    /\ acEmitted' = IF s = Ok THEN <<TRUE>> ELSE <<>>
    /\ pushOrder' = LoggedInOnly(RefreshTokenEmits(s))
                        \o (IF s = Ok THEN ValidateOrder("value") ELSE <<>>)
    /\ refreshObs' = RefreshObserved("startup", s)
    /\ check' = NoCheck
    /\ fresh' = FALSE
    /\ startup' = IF s = Ok THEN "ok" ELSE "failed"
    /\ last' = NoCall
    /\ guard' = NoGuard
    /\ UNCHANGED <<hint, isRefreshing, calls>>
    /\ UNCHANGED <<playerVars, urlVars, xsrfVars, groupVars>>

\* The response to the refresh request of validateExistingToken().  The
\* request passes AuthInterceptor, which lets a failure of the refresh
\* endpoint through.
StartupRefreshDone(s) ==
    /\ startup = "pending"
    /\ ~ShouldRefresh(UrlOf("refresh"), s, isRefreshing)
    /\ Push(RefreshTokenEmits(s) \o ValidateEmits(RefreshTokenDelivers(s)))
    /\ authCheckComplete' = TRUE
    /\ acSubject' = TRUE
    /\ acEmitted' = <<TRUE>>
    /\ pushOrder' = LoggedInOnly(RefreshTokenEmits(s))
                        \o ValidateOrder(RefreshTokenDelivers(s))
    /\ refreshObs' = RefreshObserved("startup", s)
    /\ check' = NoCheck
    /\ fresh' = FALSE
    /\ startup' = IF s = Ok THEN "ok" ELSE "failed"
    /\ last' = NoCall
    /\ guard' = NoGuard
    /\ UNCHANGED <<hint, isRefreshing, calls>>
    /\ UNCHANGED <<playerVars, urlVars, xsrfVars, groupVars>>

\* A component subscribes to login(), logout() or a catalog request: the
\* request is sent.
StartCall(k) ==
    /\ AppInitialized
    /\ \E c \in Slots :
        /\ calls[c].st = "idle"
        /\ \A d \in Slots : d < c => calls[d].st # "idle"
        /\ calls' = [calls EXCEPT ![c] =
                        [NoCall EXCEPT !.kind = k, !.st = "sent", !.sends = 1]]
    /\ emitted' = <<>>
    /\ last' = NoCall
    /\ guard' = NoGuard
    /\ acEmitted' = <<>>
    /\ Quiet
    /\ UNCHANGED <<hint, loggedIn, authCheckComplete, acSubject, startup,
                   isRefreshing>>
    /\ UNCHANGED <<playerVars, urlVars, xsrfVars, groupVars>>

\* The call in slot c goes on, as rec, after its pipeline pushed es.
Continue(c, rec, es) ==
    /\ calls' = [calls EXCEPT ![c] =
            [rec EXCEPT !.emits = @ \o es,
                        !.touched = @ \/ ValueAfter(es, loggedIn) # loggedIn]]
    /\ Push(es)
    /\ last' = NoCall
    /\ UNCHANGED hint

\* The pipeline of the call in slot c ends, as rec: the interceptor pushed
\* es, then the operators of the service method that made the call run
\* (eff) and its subscriber is notified.
Settle(c, rec, es, eff) ==
    /\ calls' = [calls EXCEPT ![c] = NoCall]
    /\ last' = [rec EXCEPT
            !.st = "done",
            !.sub = eff.sub,
            !.emits = @ \o es \o eff.emits,
            !.touched = \/ @
                        \/ ValueAfter(es \o eff.emits, loggedIn) # loggedIn
                        \/ eff.hint # hint]
    /\ hint' = eff.hint
    /\ Push(es \o eff.emits)

\* The first send is answered with 200.
FirstOk(c) ==
    /\ calls[c].st = "sent"
    /\ Settle(c, [calls[c] EXCEPT !.out = "value", !.outStatus = Ok], <<>>,
              ServiceOnValue(calls[c].kind, hint))
    /\ guard' = NoGuard
    /\ acEmitted' = <<>>
    /\ Quiet
    /\ UNCHANGED <<authCheckComplete, acSubject, startup, isRefreshing>>
    /\ UNCHANGED <<playerVars, urlVars, xsrfVars, groupVars>>

\* The first send is answered with an error: the interceptor's catchError
\* starts a refresh or rethrows.
FirstErr(c, s) ==
    /\ calls[c].st = "sent"
    /\ IF ShouldRefresh(UrlOf(calls[c].kind), s, isRefreshing)
       THEN /\ isRefreshing' = TRUE
            /\ Continue(c, [calls[c] EXCEPT !.st = "refreshing", !.err1 = s,
                                            !.refreshes = @ + 1], <<>>)
       ELSE /\ Settle(c, [calls[c] EXCEPT !.err1 = s, !.out = "error",
                                          !.outStatus = s], <<>>,
                      ServiceOnError(calls[c].kind, hint))
            /\ UNCHANGED isRefreshing
    /\ guard' = NoGuard
    /\ acEmitted' = <<>>
    /\ Quiet
    /\ UNCHANGED <<authCheckComplete, acSubject, startup>>
    /\ UNCHANGED <<playerVars, urlVars, xsrfVars, groupVars>>

\* The refresh the interceptor started for the call in slot c is answered.
\* When refreshToken() delivers a value, switchMap clears the flag and sends
\* the request again; an error would reach the inner catchError, which clears
\* the flag, calls logout() without subscribing to it and rethrows.
RefreshDone(c, s) ==
    /\ calls[c].st = "refreshing"
    /\ ~ShouldRefresh(UrlOf("refresh"), s, isRefreshing)
    /\ isRefreshing' = FALSE
    /\ LET rec == [calls[c] EXCEPT !.refreshed = IF s = Ok THEN "ok" ELSE "fail"]
       IN  IF RefreshTokenDelivers(s) = "value"
           THEN Continue(c, [rec EXCEPT !.st = "resent", !.sends = @ + 1],
                         RefreshTokenEmits(s))
           ELSE Settle(c, [rec EXCEPT !.out = "error", !.outStatus = s],
                       RefreshTokenEmits(s),
                       ServiceOnError(calls[c].kind, hint))
    /\ guard' = NoGuard
    /\ acEmitted' = <<>>
    /\ refreshObs' = RefreshObserved("interceptor", s)
    /\ check' = NoCheck
    /\ fresh' = FALSE
    /\ pushOrder' = LoggedInOnly(emitted')
    /\ UNCHANGED <<authCheckComplete, acSubject, startup>>
    /\ UNCHANGED <<playerVars, urlVars, xsrfVars, groupVars>>

\* The resend is answered with 200.
ResendOk(c) ==
    /\ calls[c].st = "resent"
    /\ Settle(c, [calls[c] EXCEPT !.out = "value", !.outStatus = Ok], <<>>,
              ServiceOnValue(calls[c].kind, hint))
    /\ guard' = NoGuard
    /\ acEmitted' = <<>>
    /\ Quiet
    /\ UNCHANGED <<authCheckComplete, acSubject, startup, isRefreshing>>
    /\ UNCHANGED <<playerVars, urlVars, xsrfVars, groupVars>>

\* A resend made through the whole interceptor chain: its failure is handled
\* like the failure of a first send.
ResendErrIntercepted(c, s) ==
    /\ calls[c].st = "resent"
    /\ IF ShouldRefresh(UrlOf(calls[c].kind), s, FALSE)
       THEN /\ isRefreshing' = TRUE
            /\ Continue(c, [calls[c] EXCEPT !.st = "refreshing", !.err2 = s,
                                            !.refreshes = @ + 1], <<>>)
       ELSE /\ isRefreshing' = FALSE
            /\ Settle(c, [calls[c] EXCEPT !.err2 = s, !.out = "error",
                                          !.outStatus = s], <<>>,
                      ServiceOnError(calls[c].kind, hint))
    /\ guard' = NoGuard
    /\ acEmitted' = <<>>
    /\ Quiet
    /\ UNCHANGED <<authCheckComplete, acSubject, startup>>
    /\ UNCHANGED <<playerVars, urlVars, xsrfVars, groupVars>>

\* The resend is answered with an error, which the outer catchError does not
\* see again: the inner catchError clears the flag, calls logout() without
\* subscribing to it and rethrows.
ResendErr(c, s) ==
    /\ calls[c].st = "resent"
    /\ isRefreshing' = FALSE
    /\ Settle(c, [calls[c] EXCEPT !.err2 = s, !.out = "error", !.outStatus = s],
              <<>>, ServiceOnError(calls[c].kind, hint))
    /\ guard' = NoGuard
    /\ acEmitted' = <<>>
    /\ Quiet
    /\ UNCHANGED <<authCheckComplete, acSubject, startup>>
    /\ UNCHANGED <<playerVars, urlVars, xsrfVars, groupVars>>

\* A guard that answers a login state of false with a bare false.
GuardDecisionBareFalse(li) == IF li THEN "allow" ELSE "deny"

\* canActivate(): map of the login state read to the decision, true or the
\* UrlTree of '/login'.
GuardDecision(li) == IF li THEN "allow" ELSE "redirect"

\* canActivate(): take(1) of authCheckComplete$ receives the BehaviorSubject's
\* current value at once, then take(1) of isLoggedIn$ reads the login state
\* and map turns it into the decision.  Both subscriptions complete in the
\* turn, so none is live after it.
CanActivate ==
    /\ LET acs == Take1(<<acSubject>>)
           lis == IF acs = <<>> THEN <<>> ELSE Take1(<<loggedIn>>)
           ds  == [i \in 1..Len(lis) |-> GuardDecision(lis[i])]
       IN  guard' = [acSeen |-> acs # <<>> /\ acs[1],
                     decision |-> IF ds = <<>> THEN "none" ELSE ds[1],
                     n |-> Len(ds),
                     live |-> acs = <<>> \/ lis = <<>>]
    /\ emitted' = <<>>
    /\ last' = NoCall
    /\ acEmitted' = <<>>
    /\ Quiet
    /\ UNCHANGED <<hint, loggedIn, authCheckComplete, acSubject, startup,
                   isRefreshing, calls>>
    /\ UNCHANGED <<playerVars, urlVars, xsrfVars, groupVars>>

\* checkAuthStatus() is called and subscribed to.  With the flag set it is
\* of(loggedInSubject.value); otherwise take(1) receives the current value of
\* authCheckComplete$ at once, tap sets the flag and switchMap emits
\* loggedInSubject.value.
CheckAuthStatus ==
    /\ IF authCheckComplete
       THEN /\ check' = [called |-> TRUE, acSeen |-> acSubject,
                         values |-> <<loggedIn>>]
            /\ UNCHANGED authCheckComplete
       ELSE LET acs == Take1(<<acSubject>>)
            IN  /\ check' = [called |-> TRUE, acSeen |-> acs # <<>> /\ acs[1],
                             values |-> IF acs = <<>> THEN <<>>
                                        ELSE <<loggedIn>>]
                /\ authCheckComplete' = (acs # <<>>)
    /\ emitted' = <<>>
    /\ acEmitted' = <<>>
    /\ pushOrder' = <<>>
    /\ refreshObs' = NoRefresh
    /\ fresh' = FALSE
    /\ last' = NoCall
    /\ guard' = NoGuard
    /\ UNCHANGED <<hint, loggedIn, acSubject, startup, isRefreshing, calls>>
    /\ UNCHANGED <<playerVars, urlVars, xsrfVars, groupVars>>

Next ==
    \/ \E s \in Outcomes : StartupRefreshDone(s)
    \/ \E k \in Kinds : StartCall(k)
    \/ \E c \in Slots : FirstOk(c)
    \/ \E c \in Slots, s \in ErrStatus : FirstErr(c, s)
    \/ \E c \in Slots, s \in Outcomes : RefreshDone(c, s)
    \/ \E c \in Slots : ResendOk(c)
    \/ \E c \in Slots, s \in ErrStatus : ResendErr(c, s)
    \/ CanActivate
    \/ CheckAuthStatus

Spec == Init /\ [][Next]_vars

\* Every HTTP request is answered: the response to the startup refresh
\* request arrives.  The requests of the calls are answered or not.
LiveSpec == Spec /\ WF_vars(\E s \in Outcomes : StartupRefreshDone(s))

(***************************************************************************)
(* The routed components.  One component is created and later destroyed;   *)
(* its subscriptions are never unsubscribed, so their events may arrive    *)
(* after it.  The view elements are taken to be resolved (videoElement is  *)
(* a static query; previewVideo is declared by a template that is not      *)
(* among the sources).  hls.js is taken to play through the element from   *)
(* attachMedia until destroy.                                              *)
(***************************************************************************)

\* The session while a guarded component exists: the startup check is over
\* and the user is logged in.
AuthAtRest ==
    /\ hint = TRUE
    /\ loggedIn = TRUE
    /\ emitted = <<>>
    /\ authCheckComplete = TRUE
    /\ acSubject = TRUE
    /\ acEmitted = <<>>
    /\ startup = "ok"
    /\ isRefreshing = FALSE
    /\ calls = [c \in Slots |-> NoCall]
    /\ last = NoCall
    /\ guard = NoGuard
    /\ refreshObs = NoRefresh
    /\ check = NoCheck
    /\ fresh = FALSE
    /\ pushOrder = <<>>

\* The state in which the router has created no component yet.
PlayerInit ==
    /\ AuthAtRest
    /\ comp = NoComp
    /\ browser \in Browsers
    /\ turn = NoTurn
    /\ NoUrlCall
    /\ NoRequestSent
    /\ NoGrouping

\* What a step of a component did: the component after it, whether it
\* created an engine and whether it assigned src to the element.
Did(c, created, assigned) ==
    [c |-> c, created |-> created, assigned |-> assigned]

\* if (this.hls) { this.hls.destroy(); this.hls = undefined; }
DestroyHls(c) ==
    IF c.hls
    THEN [c EXCEPT !.hls = FALSE, !.el = IF @ = "mse" THEN "none" ELSE @,
                   !.engines = @ - 1]
    ELSE c

\* videoEl.pause(); videoEl.removeAttribute('src'); videoEl.load();
ResetElement(c) == [c EXCEPT !.el = "none"]

\* An attach that creates the new engine over the one this.hls holds.
AttachOverOld(c, b) ==
    IF b.hls
    THEN Did([c EXCEPT !.hls = TRUE, !.el = "mse", !.engines = @ + 1],
             TRUE, FALSE)
    ELSE IF b.native THEN Did([c EXCEPT !.el = "native"], FALSE, TRUE)
    ELSE Did(c, FALSE, FALSE)

\* The engine branch and the native branch that initHlsPlayer and
\* attachPreviewHls share.
Attach(c, b) ==
    LET d == DestroyHls(c)
    IN  IF b.hls
        THEN Did([d EXCEPT !.hls = TRUE, !.el = "mse", !.engines = @ + 1],
                 TRUE, FALSE)
        ELSE IF b.native THEN Did([d EXCEPT !.el = "native"], FALSE, TRUE)
        ELSE Did(d, FALSE, FALSE)

\* Whether a URL is a non-empty string, as !this.videoUrl tests it.
NonEmpty(u) == u.host # ""

\* this.videoUrl after getHlsUrl was given a Video object, as the main page
\* and the history-state player do: the getHlsUrl among the sources takes a
\* number or a string, so the call is taken to return a URL.
VideoUrlOfVideo == TRUE

\* initHlsPlayer of both player variants.
initHlsPlayer(c, b) == IF ~c.videoUrl THEN Did(c, FALSE, FALSE) ELSE Attach(c, b)

\* attachPreviewHls of the main page.
attachPreviewHls(c, b) == Attach(c, b)

\* A subscriber that, for a narrow viewport, destroys the engine and leaves
\* the element as it is.
BreakpointHandlerKeepsSource(c, b, matches) ==
    IF matches THEN attachPreviewHls(c, b)
    ELSE Did(DestroyHls(c), FALSE, FALSE)

\* The subscriber of handleBreakpoints for a result with the given matches.
BreakpointHandler(c, b, matches) ==
    IF matches THEN attachPreviewHls(c, b)
    ELSE Did(ResetElement(DestroyHls(c)), FALSE, FALSE)

\* The turn of event ev took the component to d.c.
Observe(ev, d, nav, requested, slug, resp, found) ==
    /\ comp' = d.c
    /\ turn' = [event |-> ev, late |-> comp.life = "destroyed",
                created |-> d.created, replaced |-> d.created /\ comp.hls,
                assigned |-> d.assigned, nav |-> nav,
                requested |-> requested, slug |-> slug, resp |-> resp,
                found |-> found]

\* The other parts are left alone.
PlayerTurn == UNCHANGED <<authVars, urlVars, xsrfVars, groupVars>>

\* MainpageComponent is created: ngOnInit subscribes to getVideos().
MainpageNgOnInit ==
    /\ comp.kind = "none"
    /\ Observe("create",
               Did([NoComp EXCEPT !.kind = "mainpage", !.life = "alive",
                                  !.pending = <<<<>>>>], FALSE, FALSE),
               "none", TRUE, Absent, "none", FALSE)
    /\ UNCHANGED browser
    /\ PlayerTurn

\* The response to getVideos() reaches the subscriber of ngOnInit: an error
\* has no handler, an empty list returns, and otherwise videoUrl is set and
\* handleBreakpoints subscribes; observe() emits the current state of the
\* media query at once.
MainpageVideos(resp) ==
    /\ comp.kind = "mainpage"
    /\ comp.pending # <<>>
    /\ LET c == [comp EXCEPT !.pending = Tail(@)]
       IN  IF resp # "videos"
           THEN Observe("catalog", Did(c, FALSE, FALSE), "none", FALSE,
                        Absent, resp, FALSE)
           ELSE Observe("catalog",
                        BreakpointHandler(
                            [c EXCEPT !.videoUrl = VideoUrlOfVideo, !.bp = TRUE],
                            browser, browser.wide),
                        "none", FALSE, Absent, resp, TRUE)
    /\ UNCHANGED browser
    /\ PlayerTurn

\* The media query changes and the subscriber of handleBreakpoints runs.
BreakpointChange(matches) ==
    /\ comp.bp
    /\ matches # browser.wide
    /\ browser' = [browser EXCEPT !.wide = matches]
    /\ Observe("breakpoint", BreakpointHandler(comp, browser, matches),
               "none", FALSE, Absent, "none", FALSE)
    /\ PlayerTurn

\* ngOnDestroy of the main page.
MainpageNgOnDestroy ==
    /\ comp.kind = "mainpage"
    /\ comp.life = "alive"
    /\ Observe("destroy",
               Did([ResetElement(DestroyHls(comp)) EXCEPT !.life = "destroyed"],
                   FALSE, FALSE),
               "none", FALSE, Absent, "none", FALSE)
    /\ UNCHANGED browser
    /\ PlayerTurn

\* The subscriber of route.queryParams of the slug-driven player.
ParamsHandler(ev, c, slug) ==
    IF slug.type = "undefined" \/ slug.s = <<>>
    THEN Observe(ev, Did(c, FALSE, FALSE), "none", FALSE, slug, "none", FALSE)
    ELSE IF ~IsValidSlug(NormalizeSlug(slug.s))
    THEN Observe(ev, Did(c, FALSE, FALSE), "/not-found", FALSE, slug, "none", FALSE)
    ELSE Observe(ev,
                 Did([c EXCEPT !.pending = Append(@, NormalizeSlug(slug.s))],
                     FALSE, FALSE),
                 "none", TRUE, slug, "none", FALSE)

\* The slug-driven VideoPlayerComponent is created: its constructor
\* subscribes to route.queryParams, which emits the current parameters.
SlugPlayerConstructor(slug) ==
    /\ comp.kind = "none"
    /\ ParamsHandler("create",
                     [NoComp EXCEPT !.kind = "slug", !.life = "alive"], slug)
    /\ UNCHANGED browser
    /\ PlayerTurn

\* The query parameters of the active route change.
QueryParams(slug) ==
    /\ comp.kind = "slug"
    /\ comp.life = "alive"
    /\ Len(comp.pending) < MaxPending
    /\ ParamsHandler("params", comp, slug)
    /\ UNCHANGED browser
    /\ PlayerTurn

\* The sequence s without its i-th element.
Without(s, i) == SubSeq(s, 1, i - 1) \o SubSeq(s, i + 1, Len(s))

\* The response to the i-th unanswered getVideoBySlug() request reaches the
\* subscriber: an error has no handler, no match (in a list that may be
\* empty) navigates to '/not-found', a match sets videoUrl from getHlsUrl and calls initHlsPlayer.
SlugPlayerVideo(i, resp) ==
    /\ comp.kind = "slug"
    /\ i \in 1..Len(comp.pending)
    /\ LET slug  == comp.pending[i]
           c     == [comp EXCEPT !.pending = Without(@, i)]
           found == resp = "videos" /\ slug \in Catalog
       IN  IF resp = "error"
           THEN Observe("catalog", Did(c, FALSE, FALSE), "none", FALSE,
                        String(slug), resp, FALSE)
           ELSE IF ~found
           THEN Observe("catalog", Did(c, FALSE, FALSE), "/not-found", FALSE,
                        String(slug), resp, FALSE)
           ELSE Observe("catalog",
                        initHlsPlayer(
                            [c EXCEPT !.videoUrl =
                                 NonEmpty(getHlsUrl(String(slug), "480p"))],
                            browser),
                        "none", FALSE, String(slug), resp, TRUE)
    /\ UNCHANGED browser
    /\ PlayerTurn

\* ngOnDestroy of the slug-driven player: the engine only.
SlugPlayerNgOnDestroy ==
    /\ comp.kind = "slug"
    /\ comp.life = "alive"
    /\ Observe("destroy",
               Did([DestroyHls(comp) EXCEPT !.life = "destroyed"], FALSE, FALSE),
               "none", FALSE, Absent, "none", FALSE)
    /\ UNCHANGED browser
    /\ PlayerTurn

\* The history-state VideoPlayerComponent is created: the constructor reads
\* history.state.video and ngAfterViewInit calls initHlsPlayer.
StatePlayerConstructor(hasVideo) ==
    /\ comp.kind = "none"
    /\ LET c == [NoComp EXCEPT !.kind = "state", !.life = "alive"]
       IN  IF ~hasVideo
           THEN Observe("create", Did(c, FALSE, FALSE), "/mainpage", FALSE,
                        Absent, "none", FALSE)
           ELSE Observe("create",
                        initHlsPlayer([c EXCEPT !.videoUrl = VideoUrlOfVideo],
                                      browser),
                        "none", FALSE, Absent, "none", TRUE)
    /\ UNCHANGED browser
    /\ PlayerTurn

\* ngOnDestroy of the history-state player: the engine and the element.
StatePlayerNgOnDestroy ==
    /\ comp.kind = "state"
    /\ comp.life = "alive"
    /\ Observe("destroy",
               Did([ResetElement(DestroyHls(comp)) EXCEPT !.life = "destroyed"],
                   FALSE, FALSE),
               "none", FALSE, Absent, "none", FALSE)
    /\ UNCHANGED browser
    /\ PlayerTurn

Responses == {"videos", "empty", "error"}

PlayerNext ==
    \/ MainpageNgOnInit
    \/ \E resp \in Responses : MainpageVideos(resp)
    \/ \E matches \in BOOLEAN : BreakpointChange(matches)
    \/ MainpageNgOnDestroy
    \/ \E slug \in SlugParams : SlugPlayerConstructor(slug)
    \/ \E slug \in SlugParams : QueryParams(slug)
    \/ \E i \in 1..MaxPending, resp \in Responses : SlugPlayerVideo(i, resp)
    \/ SlugPlayerNgOnDestroy
    \/ \E hasVideo \in BOOLEAN : StatePlayerConstructor(hasVideo)
    \/ StatePlayerNgOnDestroy

PlayerSpec == PlayerInit /\ [][PlayerNext]_vars

(***************************************************************************)
(* VideoService.getHlsUrl, called twice with the same arguments while the  *)
(* service's only field changes.                                           *)
(***************************************************************************)

\* The arguments of the calls.
UrlInit ==
    /\ AuthAtRest
    /\ NoComponent
    /\ args \in [idOrSlug : IdsOrSlugs, resolution : Resolutions]
    /\ title \in Titles
    /\ hlsUrl = <<>>
    /\ hlsUrlBefore = <<>>
    /\ NoRequestSent
    /\ NoGrouping

\* A component calls getHlsUrl with the arguments.
GetHlsUrl ==
    /\ hlsUrlBefore = <<>>
    /\ hlsUrl' = <<getHlsUrl(args.idOrSlug, args.resolution)>>
    /\ hlsUrlBefore' = hlsUrl
    /\ UNCHANGED <<args, title, authVars, playerVars, xsrfVars, groupVars>>

\* A component calls videoService.title.set.
SetTitle(x) ==
    /\ x # title
    /\ title' = x
    /\ UNCHANGED <<args, hlsUrl, hlsUrlBefore, authVars, playerVars, xsrfVars,
                   groupVars>>

UrlNext ==
    \/ GetHlsUrl
    \/ \E x \in Titles : SetTitle(x)

UrlSpec == UrlInit /\ [][UrlNext]_vars

(***************************************************************************)
(* XsrfInterceptor.  The server sets and replaces the csrftoken cookie;    *)
(* callers send requests, which pass intercept one at a time.              *)
(***************************************************************************)

XsrfInit ==
    /\ AuthAtRest
    /\ NoComponent
    /\ NoUrlCall
    /\ NoGrouping
    /\ cookie \in CookieValues
    /\ sent = NoRequest

\* `token &&`: null and the empty string are falsy.
Truthy(token) == token \notin {"none", ""}

\* intercept: the request handed to next.handle.
XsrfIntercept(req, token) ==
    IF Truthy(token) /\ req.header = "none"
    THEN [req EXCEPT !.header = token, !.withCredentials = TRUE]
    ELSE req

\* A request passes XsrfInterceptor: getToken() reads the cookie as it is.
Intercept(req) ==
    /\ sent' = [req |-> req, out |-> XsrfIntercept(req, cookie),
                token |-> cookie]
    /\ UNCHANGED <<cookie, authVars, playerVars, urlVars, groupVars>>

\* A response sets the cookie, or the cookie expires.
SetCookie(v) ==
    /\ v # cookie
    /\ cookie' = v
    /\ UNCHANGED <<sent, authVars, playerVars, urlVars, groupVars>>

XsrfNext ==
    \/ \E req \in Requests : Intercept(req)
    \/ \E v \in CookieValues : SetCookie(v)

XsrfSpec == XsrfInit /\ [][XsrfNext]_vars

(***************************************************************************)
(* MainpageComponent.groupVideosByGenre, applied to the catalog and one of *)
(* its videos, as ngOnInit calls it.                                       *)
(***************************************************************************)

GroupInit ==
    /\ AuthAtRest
    /\ NoComponent
    /\ NoUrlCall
    /\ NoRequestSent
    /\ videos \in Catalogs
    /\ selected \in 1..Len(videos)
    /\ sections = <<>>

\* grouped[genre] || []: grouped is the sequence of its entries in the
\* order in which the keys were added, as Object.entries lists them.
Images(grouped, genre) ==
    IF \E i \in 1..Len(grouped) : grouped[i].title = genre
    THEN grouped[CHOOSE i \in 1..Len(grouped) : grouped[i].title = genre].images
    ELSE <<>>

\* grouped[genre] = images.
Assign(grouped, genre, images) ==
    IF \E i \in 1..Len(grouped) : grouped[i].title = genre
    THEN [i \in 1..Len(grouped) |->
             IF grouped[i].title = genre
             THEN [title |-> genre, images |-> images]
             ELSE grouped[i]]
    ELSE Append(grouped, [title |-> genre, images |-> images])

\* A loop body that appends the thumbnail of the selected video too.
GroupStepAppends(grouped, v, sel) ==
    IF v.genre = "" \/ v.thumbnail = NoThumbnail THEN grouped
    ELSE Assign(grouped, v.genre,
                Append(Images(grouped, v.genre), v.thumbnail))

\* The body of the loop over videos.
GroupStep(grouped, v, sel) ==
    IF v.genre = "" \/ v.thumbnail = NoThumbnail THEN grouped
    ELSE IF v.id = sel.id
         THEN Assign(grouped, v.genre,
                     <<v.thumbnail>> \o Images(grouped, v.genre))
         ELSE Assign(grouped, v.genre,
                     Append(Images(grouped, v.genre), v.thumbnail))

RECURSIVE GroupFrom(_, _, _)
\* The loop over the videos vs that are left.
GroupFrom(vs, sel, grouped) ==
    IF vs = <<>> THEN grouped
    ELSE GroupFrom(Tail(vs), sel, GroupStep(grouped, vs[1], sel))

\* groupVideosByGenre: the entries of grouped as sections.
groupVideosByGenre(vs, sel) == GroupFrom(vs, sel, <<>>)

\* ngOnInit calls groupVideosByGenre(videos, selected).
GroupVideosByGenre ==
    /\ sections = <<>>
    /\ sections' = <<groupVideosByGenre(videos, videos[selected])>>
    /\ UNCHANGED <<videos, selected, authVars, playerVars, urlVars, xsrfVars>>

GroupNext == GroupVideosByGenre

GroupSpec == GroupInit /\ [][GroupNext]_vars


(***************************************************************************)
(* Properties.                                                             *)
(***************************************************************************)

\* The calls in flight and the call that ended in the latest turn.
Records == {calls[c] : c \in Slots} \cup {last}

\* The call of slot c as the turn leaves it.
After(c) == IF calls'[c].kind = "none" THEN last' ELSE calls'[c]

\* The turn delivers the response to the refresh started for the call in
\* slot c, and that response is a failure.
RefreshFailsFor(c) ==
    /\ calls[c].st = "refreshing"
    /\ After(c).st # "refreshing"
    /\ After(c).refreshed = "fail"

\* C1: at most one request to the token-refresh endpoint is outstanding in
\* every reachable state, whoever called refreshToken().
C1_AtMostOneRefreshOutstanding == RefreshOutstanding <= 1

\* C2: in the state a subscribed logout() call settles in, after a successful
\* or a failed sign-out request, the hint is absent, the login state is false
\* and the subscriber has received a value, not an error.
C2_LogoutSettlesLoggedOut ==
    last.kind = "logout" => ~hint /\ ~loggedIn /\ last.sub = "value"

\* A logout() whose sign-out request failed has settled, and it changed the
\* session state.
C2_Witness ==
    last.kind = "logout" /\ last.out = "error" /\ last.touched

\* C3: with the hint set, in the state in which authCheckComplete$ emits
\* true the login state is true exactly when the startup refresh succeeded;
\* in particular it is false when the startup refresh failed.
C3_StartupLoginStateIsRefreshResult ==
    (acEmitted = <<TRUE>> /\ startup # "none") => (loggedIn <=> startup = "ok")

\* C4: canActivate() produces a decision only once authCheckComplete$ has
\* emitted true, so a guard invoked while the startup check is pending
\* decides nothing from the initial login state.
C4_GuardDecidesAfterCheck == guard.decision # "none" => acSubject

\* C5: the turn in which a refresh started by the interceptor fails leaves
\* the login state false and the hint absent (the forced logout took effect).
C5_RefreshFailureLogsOut ==
    [][\A c \in Slots : RefreshFailsFor(c) => ~loggedIn' /\ ~hint']_vars

\* C6: a call whose interceptor-started refresh failed was sent once only,
\* has ended, and its caller received the original 401.
C6_RefreshFailurePropagates ==
    \A r \in Records :
        r.refreshed = "fail" =>
            /\ r.st = "done"
            /\ r.sends = 1
            /\ r.out = "error"
            /\ r.outStatus = r.err1

\* C7: a call is sent at most twice and gets at most one refresh; once its
\* refresh has succeeded it has been sent exactly twice; and when its resend
\* fails, also with 401, it ends there with that failure leaving the
\* interceptor.
C7_ResendOnce ==
    \A r \in Records :
        /\ r.sends <= 2
        /\ r.refreshes <= 1
        /\ r.refreshed = "ok" => r.st \in {"resent", "done"} /\ r.sends = 2
        /\ r.err2 # 0 =>
            /\ r.st = "done"
            /\ r.out = "error"
            /\ r.outStatus = r.err2

\* A call whose refresh succeeded and whose resend failed with another 401
\* has ended.
C7_Witness ==
    /\ last.refreshed = "ok"
    /\ last.err2 = Unauthorized
    /\ last.sends = 2

\* C8: a first failure that is handled while an interceptor-started refresh
\* is outstanding, or whose status is not 401, starts no refresh and no
\* resend and is propagated; and the failure of a refresh request itself
\* starts no refresh.
C8_NoRefreshWhileRefreshing ==
    [][/\ \A c \in Slots :
            (/\ calls[c].st = "sent"
             /\ After(c).err1 # 0
             /\ \/ \E d \in Slots : calls[d].st = "refreshing"
                \/ After(c).err1 # Unauthorized)
            => /\ After(c).st = "done"
               /\ After(c).refreshes = 0
               /\ After(c).sends = 1
               /\ After(c).out = "error"
               /\ After(c).outStatus = After(c).err1
       /\ (\E c \in Slots : RefreshFailsFor(c))
            => RefreshOutstanding' < RefreshOutstanding]_vars

\* C9: in the state a login() call succeeds in, the login state is true, the
\* hint is set, and the turn that delivered the response pushed true to
\* isLoggedIn$ exactly once.
C9_LoginSuccess ==
    (last.kind = "login" /\ last.sub = "value") =>
        loggedIn /\ hint /\ emitted = <<TRUE>>

\* A login() succeeded and changed the session state.
C9_Witness ==
    last.kind = "login" /\ last.sub = "value" /\ last.touched

\* C10: a login() call that failed delivered the error to its subscriber,
\* pushed nothing to isLoggedIn$ and changed neither the login state nor the
\* hint.
C10_LoginFailureLeavesState ==
    (last.kind = "login" /\ last.out = "error") =>
        /\ last.sub = "error"
        /\ last.emits = <<>>
        /\ ~last.touched

\* C11: refreshToken() never delivers an error to its subscriber.  Whatever
\* the response, the subscriber receives a value; refreshToken() pushes true
\* to the login state for a success and false for a failure, and the value
\* delivered for a failure is the null of of(null).  When the interceptor is
\* the subscriber the login state the turn ends in is that value.
C11_RefreshTokenNeverErrors ==
    refreshObs.by # "none" =>
        /\ refreshObs.delivered = "value"
        /\ refreshObs.pushed = <<refreshObs.status = Ok>>
        /\ refreshObs.status # Ok => refreshObs.value = "null"
        /\ refreshObs.by = "interceptor" => loggedIn = (refreshObs.status = Ok)

\* A refresh the interceptor started has failed.
C11_Witness ==
    refreshObs.by = "interceptor" /\ refreshObs.status # Ok

\* C12: checkAuthStatus(), subscribed to while the startup refresh request
\* is unanswered, emits nothing in that turn.
C12_CheckAuthStatusWaits ==
    (check.called /\ startup = "pending") => check.values = <<>>

\* C13: a canActivate call yields exactly one decision, in the turn of the
\* call and with no subscription left behind: true for a login state of true
\* and the redirect to '/login' otherwise.
C13_GuardDecidesOnce ==
    (guard.n > 0 \/ guard.live) =>
        /\ guard.n = 1
        /\ ~guard.live
        /\ guard.decision = IF loggedIn THEN "allow" ELSE "redirect"

\* The guard has redirected to '/login'.
C13_Witness == guard.n = 1 /\ guard.decision = "redirect"

\* C14: when every request is answered, the initial check becomes complete
\* and stays so: authCheckComplete$ holds true, which resolves the
\* initializer's promise, and no guard subscription is left waiting.
C14_CheckEventuallyComplete ==
    <>[](AppInitialized /\ authCheckComplete /\ ~guard.live)

\* The check was completed by the answer to the startup refresh request.
C14_Witness == startup = "failed" /\ AppInitialized /\ authCheckComplete

\* C15: with no hint the constructor leaves the check complete, having
\* pushed true to authCheckComplete$, the login state false and no refresh
\* request sent.
C15_NoHintNoRefresh ==
    (fresh /\ ~hint) =>
        /\ authCheckComplete
        /\ acSubject
        /\ acEmitted = <<TRUE>>
        /\ ~loggedIn
        /\ emitted = <<>>
        /\ startup = "none"
        /\ RefreshOutstanding = 0

\* The service was constructed without the hint.
C15_Witness == fresh /\ ~hint /\ acSubject

\* C16: while the startup refresh is unanswered authCheckComplete$ has not
\* emitted true, and in the turn that answers it the login state is pushed
\* before authCheckComplete$ emits true and is not pushed after it.
C16_LoginStateBeforeComplete ==
    /\ startup = "pending" => ~acSubject /\ acEmitted = <<>>
    /\ (startup \in {"ok", "failed"} /\ acEmitted = <<TRUE>>) =>
        \A i \in 1..Len(pushOrder) :
            pushOrder[i] = "authCheckComplete" =>
                /\ \E j \in 1..(i - 1) : pushOrder[j] = "loggedIn"
                /\ \A j \in (i + 1)..Len(pushOrder) : pushOrder[j] # "loggedIn"

\* The startup refresh failed and the check was completed in that turn.
C16_Witness ==
    startup = "failed" /\ acEmitted = <<TRUE>> /\ refreshObs.by = "startup"

\* C17: the turn that destroys a component leaves no engine in this.hls and
\* no source on the media element.
C17_DestroyReleasesPlayer ==
    turn.event = "destroy" => ~comp.hls /\ comp.el = "none"

\* C18: an event that reaches a subscriber of a destroyed component creates
\* no engine, assigns no source and starts no navigation.
C18_LateEventsHaveNoEffect ==
    turn.late => ~turn.created /\ ~turn.assigned /\ turn.nav = "none"

\* The slug the subscriber of queryParams received is absent or empty.
NoSlug == turn.slug.type = "undefined" \/ turn.slug.s = <<>>

\* C19: in the slug-driven player, query parameters whose slug is absent,
\* empty or invalid after normalization navigate to '/not-found' and send no
\* catalog request, and a catalog response without a match for the slug
\* navigates to '/not-found'.
C19_BadSlugGoesToNotFound ==
    comp.kind = "slug" =>
        /\ (turn.event \in {"create", "params"}
              /\ (NoSlug \/ ~IsValidSlug(NormalizeSlug(turn.slug.s))))
            => (turn.nav = "/not-found" /\ ~turn.requested)
        /\ (turn.event = "catalog" /\ turn.resp # "error" /\ ~turn.found)
            => turn.nav = "/not-found"

\* The least and the greatest element of a set of numbers.
Least(S) == CHOOSE i \in S : \A j \in S : i <= j
Greatest(S) == CHOOSE i \in S : \A j \in S : j <= i

\* The string between the first and the last character that is not
\* whitespace.
Trimmed(s) ==
    LET solid == {i \in 1..Len(s) : s[i] \notin Whitespace}
    IN  IF solid = {} THEN <<>> ELSE SubSeq(s, Least(solid), Greatest(solid))

\* s with each maximal run of whitespace and hyphens written as one
\* underscore: the characters outside runs and the first one of each run.
RunsAsUnderscore(s) ==
    LET heads == {i \in 1..Len(s) :
                      \/ s[i] \notin WhitespaceOrHyphen
                      \/ i = 1
                      \/ s[i - 1] \notin WhitespaceOrHyphen}
        kept  == SelectSeq([i \in 1..Len(s) |-> i], LAMBDA i : i \in heads)
    IN  [k \in 1..Len(kept) |->
            IF s[kept[k]] \in WhitespaceOrHyphen THEN "_" ELSE s[kept[k]]]

\* The path segment the claim gives for an argument.
Segment(v) ==
    IF v.type = "number"
    THEN (IF v.n < 10 THEN <<Digit(v.n)>>
          ELSE <<Digit(v.n \div 10), Digit(v.n % 10)>>)
    ELSE RunsAsUnderscore(Trimmed(v.s))

\* C20: getHlsUrl returns {host}/media/videos/hls/{resolution}/{segment}/
\* index.m3u8 with the segment the decimal form of a number, or the trimmed
\* string with each maximal run of whitespace and hyphens as one underscore
\* (42 gives '42', 'a a' gives 'a_a'), and a second call with the same
\* arguments returns the same URL whatever the service's title is.
C20_HlsUrlOfArguments ==
    hlsUrl # <<>> =>
        /\ hlsUrl[1] = [host |-> MediaHost,
                        path |-> <<"media", "videos", "hls">>,
                        resolution |-> args.resolution,
                        segment |-> Segment(args.idOrSlug),
                        file |-> "index.m3u8"]
        /\ args.idOrSlug = Number(42) => hlsUrl[1].segment = <<"4", "2">>
        /\ args.idOrSlug = String(<<"a", " ", "a">>)
            => hlsUrl[1].segment = <<"a", "_", "a">>
        /\ hlsUrlBefore # <<>> => hlsUrlBefore = hlsUrl

\* getHlsUrl was called twice with a string that starts with a run of a
\* hyphen and a blank, and the title changed.
C20_Witness ==
    /\ hlsUrl # <<>>
    /\ hlsUrlBefore # <<>>
    /\ args.idOrSlug = String(<<"-", " ", "a">>)
    /\ title # ""

\* C22: in the turn after a logout() call has settled, the login state
\* becomes true only by a login() call that succeeds in that turn; the
\* response to a refresh request that was in flight does not set it.
C22_LoggedOutStaysLoggedOut ==
    [][(last.kind = "logout" /\ last.sub # "none" /\ loggedIn')
            => (last'.kind = "login" /\ last'.sub = "value")]_vars

\* C23: a login() call, in flight or ended, has sent its request once and
\* has started no token refresh.
C23_LoginSendsOnce ==
    \A r \in Records :
        r.kind = "login" => r.sends <= 1 /\ r.refreshes = 0

\* C24: the interceptor's flag is true exactly while a refresh that the
\* interceptor started is unanswered.
C24_FlagIffRefreshOutstanding ==
    isRefreshing <=> (\E c \in Slots : calls[c].st = "refreshing")

\* C26: the private flag authCheckComplete is true only if
\* authCheckCompleteSubject holds true.
C26_FlagAgreesWithSubject == authCheckComplete => acSubject

\* C27: a login state of true implies that the hint is set.
C27_LoggedInImpliesHint == loggedIn => hint

C28_AtMostOneEngine ==
    /\ comp.engines <= 1
    /\ comp.hls <=> comp.engines = 1
    /\ turn.created => comp.engines = 1

\* A second catalog response created an engine in place of the one the
\* first response had created.
C28_Witness ==
    comp.kind = "slug" /\ turn.event = "catalog" /\ turn.replaced

\* C21: a request that changes state and leaves XsrfInterceptor, and whose
\* caller had not set 'X-CSRFToken', carries that header with the token the
\* cookie held when it was sent.
C21_MutatingRequestsCarryToken ==
    (sent.req.method \in Methods \ {"GET"} /\ sent.req.header = "none")
        => (sent.out.header # "none" /\ sent.out.header = sent.token)

\* A video has a genre and a thumbnail.
Listed(v) == v.genre # "" /\ v.thumbnail # NoThumbnail

\* The images the claim gives for the section of a genre: the thumbnail of
\* the selected video if it is of that genre, then those of the other
\* videos of the genre in catalog order.
SectionImages(genre) ==
    LET sel    == videos[selected]
        others == SelectSeq(videos, LAMBDA v :
                      Listed(v) /\ v.genre = genre /\ v.id # sel.id)
    IN  (IF Listed(sel) /\ sel.genre = genre THEN <<sel.thumbnail>> ELSE <<>>)
            \o [k \in 1..Len(others) |-> others[k].thumbnail]

\* C29: groupVideosByGenre returns one section for each genre of a video
\* that has a genre and a thumbnail; its images are the thumbnail of the
\* selected video first, if it is of that genre, and then the thumbnail of
\* every other such video of the genre once, in catalog order; a video
\* without a genre or without a thumbnail is in no section.
C29_SectionsByGenre ==
    sections # <<>> =>
        LET secs == sections[1]
        IN  /\ \A i, j \in 1..Len(secs) :
                   secs[i].title = secs[j].title => i = j
            /\ {secs[i].title : i \in 1..Len(secs)}
                   = {videos[k].genre : k \in {n \in 1..Len(videos) :
                                                   Listed(videos[n])}}
            /\ \A i \in 1..Len(secs) :
                   secs[i].images = SectionImages(secs[i].title)
            /\ \A k \in 1..Len(videos) :
                   ~Listed(videos[k]) =>
                       \A i \in 1..Len(secs) :
                           \A m \in 1..Len(secs[i].images) :
                               secs[i].images[m] # Thumbnail(k)

\* The selected video is the last of three, of the genre of the first, and
\* the second has no genre.
C29_Witness ==
    /\ sections # <<>>
    /\ Len(videos) = 3
    /\ selected = 3
    /\ Listed(videos[1]) /\ Listed(videos[3])
    /\ videos[1].genre = videos[3].genre
    /\ videos[2].genre = "" /\ videos[2].thumbnail # NoThumbnail
    /\ sections[1][1].images = <<Thumbnail(3), Thumbnail(1)>>

=============================================================================
